---------------------------- MODULE Spec2Model ----------------------------
(***************************************************************************)
(* A model of the report pipeline of auto_market_reporter:                 *)
(*   reports/generate_report.py   generate()  (aggregation + markup)       *)
(*   tools/export_report_pdf.py   parse_report(), render_report_to_flow()  *)
(*   analysis/openai_summary.py   summarize(), clear_ai_cache()            *)
(*                                                                         *)
(* Text is modelled as a sequence of one-character strings, so that the    *)
(* prefix tests, strip(), split(":", 1), the bullet regular expressions,   *)
(* "\n".join and splitlines() are computed the way the code computes them. *)
(***************************************************************************)
EXTENDS Integers, Sequences, FiniteSets, TLC

VARIABLES
    pst,        \* parse_report's loop state after the lines read so far
    ref,        \* the same loop on the same lines without the inserted line
    ins,        \* the inserted line: <<>>, or <<[mode, line, next]>>
    prev,       \* whether the line read last is a line of the grammar
    fed,        \* number of lines handed to the parser loop
    ai_summaries, \* table ai_summaries: (report_date, ticker, model) -> summary
    MODEL,      \* the module constant MODEL of the running process
    given,      \* per key, the text summarize returned last since the last clear
    pending,    \* keys whose text a clear removed, not served by summarize since
    last,       \* outcome of the latest summarize or clear_ai_cache call
    ops,        \* number of calls made
    prices,     \* table prices_daily: ticker -> set of rows, one per date
    news,       \* table news: ticker -> set of rows
    md,         \* the markup file written by generate: <<>> or <<[date, text]>>
    gen,        \* generate's values per section, in the order of the blocks
    report,     \* what parse_report returned for the markup file: <<>> or <<r>>
    pc,         \* the step of main the process is at
    fetch       \* fetch_prices.run: ticker at hand, attempts, requests, sleep, outcome

(***************************************************************************)
(* Text helpers                                                            *)
(***************************************************************************)

\* Python's str.isspace() on the characters of the model's alphabet.
IsSpace(c) == c \in {" ", "\t", "\n"}

\* str.startswith
StartsWith(s, p) == Len(s) >= Len(p) /\ SubSeq(s, 1, Len(p)) = p

RECURSIVE LStrip(_)
LStrip(s) == IF s # <<>> /\ IsSpace(Head(s)) THEN LStrip(Tail(s)) ELSE s

RECURSIVE RStrip(_)
RStrip(s) ==
    IF s # <<>> /\ IsSpace(s[Len(s)]) THEN RStrip(SubSeq(s, 1, Len(s) - 1)) ELSE s

\* str.strip()
Strip(s) == RStrip(LStrip(s))

\* str.lower() on the letters the parser looks at
LowerChar(c) == IF c = "S" THEN "s" ELSE c
Lower(s) == [i \in 1..Len(s) |-> LowerChar(s[i])]

\* position of the first occurrence of character c in s, 0 when absent
RECURSIVE IndexOfFrom(_, _, _)
IndexOfFrom(s, c, i) ==
    IF i > Len(s) THEN 0
    ELSE IF s[i] = c THEN i
    ELSE IndexOfFrom(s, c, i + 1)

IndexOf(s, c) == IndexOfFrom(s, c, 1)

\* s.split(":", 1): one part when s holds no colon, else two
SplitColon1(s) ==
    LET k == IndexOf(s, ":")
    IN IF k = 0 THEN <<s>>
       ELSE <<SubSeq(s, 1, k - 1), SubSeq(s, k + 1, Len(s))>>

\* "\n".join(lines)
RECURSIVE JoinLines(_)
JoinLines(ls) ==
    IF ls = <<>> THEN <<>>
    ELSE IF Len(ls) = 1 THEN ls[1]
    ELSE ls[1] \o <<"\n">> \o JoinLines(Tail(ls))

\* str.splitlines(): a trailing line break opens no further line
RECURSIVE SplitLines(_)
SplitLines(t) ==
    IF t = <<>> THEN <<>>
    ELSE LET k == IndexOf(t, "\n")
         IN IF k = 0 THEN <<t>>
            ELSE <<SubSeq(t, 1, k - 1)>> \o SplitLines(SubSeq(t, k + 1, Len(t)))

\* re.match(r"^\s{n}-\s+", line)
BulletMatch(line, n) ==
    /\ Len(line) >= n + 2
    /\ \A i \in 1..n : IsSpace(line[i])
    /\ line[n + 1] = "-"
    /\ IsSpace(line[n + 2])

\* re.sub(r"^\s{n}-\s+", "", line).strip() for a line the expression matches
BulletText(line, n) == Strip(SubSeq(line, n + 2, Len(line)))

\* is_url
is_url(s) ==
    LET t == Strip(s)
    IN \/ StartsWith(t, <<"h","t","t","p",":","/","/">>)
       \/ StartsWith(t, <<"h","t","t","p","s",":","/","/">>)

(***************************************************************************)
(* Line prefixes of the markup grammar                                     *)
(***************************************************************************)
PfxTitle   == <<"#", " ">>
PfxMeta    == <<"#", "#", " ">>
PfxSection == <<"#", "#", "#", " ">>
PfxDate    == <<"-", " ", "D", "a", "t", "e", ":">>
PfxClose   == <<"-", " ", "C", "l", "o", "s", "e", ":">>
PfxVolume  == <<"-", " ", "V", "o", "l", "u", "m", "e", ":">>
PfxRange   == <<"-", " ", "2", "0", "D", " ", "R", "a", "n", "g", "e", ":">>
PfxNews    == <<"-", " ", "N", "e", "w", "s">>
PfxAISum   == <<"-", " ", "A", "I", " ", "S", "u", "m", "m", "a", "r", "y", ":">>
PfxSummary == <<"-", " ", "S", "u", "m", "m", "a", "r", "y", ":">>
PfxDash    == <<"-", " ">>
PfxSubSum  == <<"s", "u", "m", "m", "a", "r", "y", ":">>


(***************************************************************************)
(* parse_report: the line loop                                             *)
(***************************************************************************)
EmptyKv == [k \in {} |-> <<>>]

\* current["kv"][key] = value
KvSet(kv, key, v) == [k \in DOMAIN kv \cup {key} |-> IF k = key THEN v ELSE kv[k]]

\* report, current, mode, last_news before the first line; err records an
\* exception raised by a statement of the loop
InitPst ==
    [title |-> <<>>, meta |-> <<>>, sections |-> <<>>,
     cur |-> <<>>, mode |-> "none", last_news |-> 0, err |-> FALSE]

NewSection(name) == [ticker |-> name, kv |-> EmptyKv, news |-> <<>>, ai |-> <<>>]

\* current["kv"][key] = line.split(":", 1)[1].strip()
KvLine(st, key, line) ==
    LET parts == SplitColon1(line)
    IN IF Len(parts) < 2 THEN [st EXCEPT !.err = TRUE]
       ELSE [st EXCEPT !.cur[1].kv = KvSet(@, key, Strip(parts[2]))]

\* a mutant of the guard below: the test of last_news left out
SubBulletGuardNone(st) == TRUE

\* "last_news is not None" in the guard of the sub-bullet branch
SubBulletGuard(st) == st.last_news # 0

\* a mutant of SubBullet: the first item of the section is written, not the
\* item last started
SubBulletFirst(st, line) ==
    LET txt == BulletText(line, 4)
    IN IF StartsWith(Lower(txt), PfxSubSum)
       THEN [st EXCEPT !.cur[1].news[1].summary = Strip(SplitColon1(txt)[2])]
       ELSE IF is_url(txt)
       THEN [st EXCEPT !.cur[1].news[1].url = txt]
       ELSE st

\* the body of the sub-bullet branch: last_news["summary"] / last_news["url"]
SubBullet(st, line) ==
    LET txt == BulletText(line, 4)
    IN IF StartsWith(Lower(txt), PfxSubSum)
       THEN LET parts == SplitColon1(txt)
            IN IF st.last_news = 0 \/ Len(parts) < 2 THEN [st EXCEPT !.err = TRUE]
               ELSE [st EXCEPT !.cur[1].news[st.last_news].summary = Strip(parts[2])]
       ELSE IF is_url(txt)
       THEN IF st.last_news = 0 THEN [st EXCEPT !.err = TRUE]
            ELSE [st EXCEPT !.cur[1].news[st.last_news].url = txt]
       ELSE st

\* a mutant of the guard below: a header is not seen in narrative mode
SectionGuardOutsideNarrative(st, line) ==
    st.mode # "ai" /\ StartsWith(line, PfxSection)

\* line.startswith("### ")
SectionGuard(st, line) == StartsWith(line, PfxSection)

\* a mutant of the guard below: the test of the mode left out
NewsBulletGuardAnyMode(st, line) == BulletMatch(line, 2)

\* mode == "news" and re.match(r"^\s{2}-\s+", line)
NewsBulletGuard(st, line) == st.mode = "news" /\ BulletMatch(line, 2)

\* a mutant of the guard below: the test of the "- " prefix left out
ContinuationGuardNoDash(st, line) == st.mode = "ai" /\ Strip(line) # <<>>

\* mode == "ai" and line.strip() and not line.startswith("- ")
ContinuationGuard(st, line) ==
    st.mode = "ai" /\ Strip(line) # <<>> /\ ~StartsWith(line, PfxDash)

\* one pass of "for raw in lines", the tests in the order of the code
ParseLine(st, line) ==
    IF StartsWith(line, PfxTitle)
    THEN [st EXCEPT !.title = Strip(SubSeq(line, 3, Len(line)))]
    ELSE IF st.meta = <<>> /\ StartsWith(line, PfxMeta)
    THEN [st EXCEPT !.meta = Strip(SubSeq(line, 4, Len(line)))]
    ELSE IF SectionGuard(st, line)
    THEN [st EXCEPT !.sections = IF st.cur # <<>> THEN Append(@, st.cur[1]) ELSE @,
                    !.cur = <<NewSection(Strip(SubSeq(line, 5, Len(line))))>>,
                    !.mode = "none",
                    !.last_news = 0]
    ELSE IF st.cur = <<>> THEN st
    ELSE IF StartsWith(line, PfxDate) THEN KvLine(st, "date", line)
    ELSE IF StartsWith(line, PfxClose) THEN KvLine(st, "close", line)
    ELSE IF StartsWith(line, PfxVolume) THEN KvLine(st, "volume", line)
    ELSE IF StartsWith(line, PfxRange) THEN KvLine(st, "range", line)
    ELSE IF StartsWith(line, PfxNews)
    THEN [st EXCEPT !.mode = "news", !.last_news = 0]
    ELSE IF StartsWith(line, PfxAISum) \/ StartsWith(line, PfxSummary)
    THEN [st EXCEPT !.mode = "ai"]
    ELSE IF NewsBulletGuard(st, line)
    THEN [st EXCEPT !.cur[1].news =
                        Append(@, [line |-> BulletText(line, 2),
                                   summary |-> <<>>, url |-> <<>>]),
                    !.last_news = Len(st.cur[1].news) + 1]
    ELSE IF st.mode = "news" /\ BulletMatch(line, 4) /\ SubBulletGuard(st)
    THEN SubBullet(st, line)
    ELSE IF st.mode = "ai" /\ BulletMatch(line, 2)
    THEN [st EXCEPT !.cur[1].ai =
                        IF @ # <<>> THEN @ \o <<"\n">> \o BulletText(line, 2)
                        ELSE BulletText(line, 2)]
    ELSE IF ContinuationGuard(st, line)
    THEN [st EXCEPT !.cur[1].ai = Strip(@ \o <<" ">> \o Strip(line))]
    ELSE st

\* a mutant of Finish: the open section is not flushed
FinishNoFlush(st) ==
    [title |-> st.title, meta |-> st.meta, sections |-> st.sections]

\* the statements after the loop: flush the open section, return the report
Finish(st) ==
    [title |-> st.title, meta |-> st.meta,
     sections |-> IF st.cur # <<>> THEN Append(st.sections, st.cur[1])
                  ELSE st.sections]

RECURSIVE ParseLines(_, _)
ParseLines(st, ls) ==
    IF ls = <<>> THEN st ELSE ParseLines(ParseLine(st, Head(ls)), Tail(ls))

\* parse_report(md_text); err is kept beside the report
parse_report(text) ==
    LET st == ParseLines(InitPst, SplitLines(text))
    IN [report |-> Finish(st), err |-> st.err]

(***************************************************************************)
(* tools/export_report_pdf.py: the document flow                           *)
(***************************************************************************)

\* esc: "&", "<" and ">" replaced by their entities
RECURSIVE esc(_)
esc(s) ==
    IF s = <<>> THEN <<>>
    ELSE (CASE Head(s) = "&" -> <<"&", "a", "m", "p", ";">>
            [] Head(s) = "<" -> <<"&", "l", "t", ";">>
            [] Head(s) = ">" -> <<"&", "g", "t", ";">>
            [] OTHER -> <<Head(s)>>) \o esc(Tail(s))

\* s.replace(c, d) for a character c and a string d
RECURSIVE ReplaceChar(_, _, _)
ReplaceChar(s, c, d) ==
    IF s = <<>> THEN <<>>
    ELSE (IF Head(s) = c THEN d ELSE <<Head(s)>>) \o ReplaceChar(Tail(s), c, d)

\* the first n characters of s
Prefix(s, n) == SubSeq(s, 1, IF Len(s) < n THEN Len(s) ELSE n)

\* characters outside ASCII that the code names, each one element of a text
Ellipsis == "U+2026"
BlackSquare == "U+25A0"

\* url[:60] plus an ellipsis when url is longer than 60
Clipped(url) == Prefix(url, 60) \o (IF Len(url) > 60 THEN <<Ellipsis>> ELSE <<>>)

\* the length of the scheme when url starts with http:// or https://, else 0
SchemeLen(url) ==
    IF StartsWith(url, <<"h", "t", "t", "p", ":", "/", "/">>) THEN 7
    ELSE IF StartsWith(url, <<"h", "t", "t", "p", "s", ":", "/", "/">>) THEN 8
    ELSE 0

\* the domain of ^(https?://)([^/]+)(/.*)?$ for a url after its scheme
DomainOf(rest) ==
    IF IndexOf(rest, "/") = 0 THEN rest ELSE SubSeq(rest, 1, IndexOf(rest, "/") - 1)

\* short_url for keep_tail = 10: the domain, an ellipsis and the last 10
\* characters
short_url(url) ==
    IF Strip(url) = <<>> THEN <<>>
    ELSE IF SchemeLen(Strip(url)) = 0
            \/ DomainOf(SubSeq(Strip(url), SchemeLen(Strip(url)) + 1, Len(Strip(url)))) = <<>>
    THEN Clipped(Strip(url))
    ELSE DomainOf(SubSeq(Strip(url), SchemeLen(Strip(url)) + 1, Len(Strip(url))))
         \o <<Ellipsis>>
         \o (IF Len(Strip(url)) > 10
             THEN SubSeq(Strip(url), Len(Strip(url)) - 9, Len(Strip(url)))
             ELSE Strip(url))

\* kv.get(k) is a non-empty string
KvGiven(kv, k) == k \in DOMAIN kv /\ kv[k] # <<>>

\* a mutant of kv_table: a row for every field present, empty or not
kv_table_present(kv) ==
    (IF "date" \in DOMAIN kv THEN <<<<<<"D", "a", "t", "e">>, esc(kv["date"])>>>> ELSE <<>>)
    \o (IF "close" \in DOMAIN kv THEN <<<<<<"C", "l", "o", "s", "e">>, esc(kv["close"])>>>> ELSE <<>>)
    \o (IF "volume" \in DOMAIN kv THEN <<<<<<"V", "o", "l", "u", "m", "e">>, esc(kv["volume"])>>>> ELSE <<>>)
    \o (IF "range" \in DOMAIN kv THEN <<<<<<"2", "0", "D", " ", "R", "a", "n", "g", "e">>, esc(kv["range"])>>>> ELSE <<>>)

\* kv_table: the rows of the table, one per field the section has
kv_table(kv) ==
    (IF KvGiven(kv, "date") THEN <<<<<<"D", "a", "t", "e">>, esc(kv["date"])>>>> ELSE <<>>)
    \o (IF KvGiven(kv, "close") THEN <<<<<<"C", "l", "o", "s", "e">>, esc(kv["close"])>>>> ELSE <<>>)
    \o (IF KvGiven(kv, "volume") THEN <<<<<<"V", "o", "l", "u", "m", "e">>, esc(kv["volume"])>>>> ELSE <<>>)
    \o (IF KvGiven(kv, "range")
        THEN <<<<<<"2", "0", "D", " ", "R", "a", "n", "g", "e">>, esc(ReplaceChar(kv["range"], BlackSquare, <<>>))>>>> ELSE <<>>)

\* ai_box: the text of the box
ai_box(text) ==
    IF Strip(text) = <<>> THEN <<"(", "N", "o", " ", "A", "I", " ", "s", "u", "m", "m", "a", "r", "y", ".", ")">> ELSE esc(Strip(text))

Para(style, text) == [kind |-> style, text |-> text]

\* the paragraphs of the i-th news item; n is i written in decimal
NewsItemFlow(n, it) ==
    <<Para("news_item",
           n \o <<".", " ">> \o esc(ReplaceChar(ReplaceChar(it.line, "T", <<" ">>), BlackSquare, <<>>)))>>
    \o (IF Strip(it.summary) # <<>>
        THEN <<Para("news_summary", <<"<", "i", ">">> \o esc(Strip(it.summary)) \o <<"<", "/", "i", ">">>)>>
        ELSE <<>>)
    \o (IF Strip(it.url) # <<>>
        THEN <<[kind |-> "link", href |-> esc(Strip(it.url)),
                text |-> esc(short_url(Strip(it.url)))]>>
        ELSE <<>>)

\* decimal digits of i, for the items a section of the model can hold
ItemNo(i) == <<<<"0", "1", "2", "3", "4", "5", "6", "7", "8", "9">>[(i % 10) + 1]>>

RECURSIVE NewsFlowFrom(_, _)
NewsFlowFrom(items, i) ==
    IF i > Len(items) THEN <<>>
    ELSE NewsItemFlow(ItemNo(i), items[i]) \o NewsFlowFrom(items, i + 1)

\* the news block of a section
NewsFlow(items) ==
    IF items = <<>> THEN <<Para("small", <<"N", "o", " ", "r", "e", "c", "e", "n", "t", " ", "n", "e", "w", "s", ".">>)>>
    ELSE NewsFlowFrom(items, 1)

\* the block kept together for one section, then the spacer after it
SectionFlow(sec) ==
    <<[kind |-> "section",
       block |-> <<Para("ticker", esc(sec.ticker)),
                   [kind |-> "kv_table", rows |-> kv_table(sec.kv)],
                   [kind |-> "spacer"],
                   Para("news_head", <<"N", "e", "w", "s">>)>>
                 \o NewsFlow(sec.news)
                 \o <<[kind |-> "spacer"],
                      Para("ai_head", <<"S", "u", "m", "m", "a", "r", "y">>),
                      Para("ai_text", ai_box(sec.ai))>>],
      [kind |-> "spacer"]>>

RECURSIVE SectionsFlow(_)
SectionsFlow(secs) ==
    IF secs = <<>> THEN <<>> ELSE SectionFlow(Head(secs)) \o SectionsFlow(Tail(secs))

\* render_report_to_flow: title, meta line if any, then the sections
render_report_to_flow(r) ==
    <<Para("title", esc(IF r.title # <<>> THEN r.title ELSE <<"D", "a", "i", "l", "y", " ", "M", "a", "r", "k", "e", "t", " ", "R", "e", "p", "o", "r", "t">>))>>
    \o (IF r.meta # <<>> THEN <<Para("meta", esc(r.meta))>> ELSE <<>>)
    \o SectionsFlow(r.sections)

\* what export_pdf computes from the file: the report and the flow built
Exported(p) ==
    [report |-> p.report, err |-> p.err, flow |-> render_report_to_flow(p.report)]

(***************************************************************************)
(* Strings of the store and number formatting                              *)
(***************************************************************************)

\* code points, in order, of the characters that dates and tickers hold
CharOrder == <<" ", "+", "-", "0", "1", "2", "3", "4", "5", "6", "7", "8", "9",
               ":", "A", "B", "C", "E", "M", "T">>

Ord(c) == IndexOf(CharOrder, c)

\* a < b for Python str and for SQLite's BINARY collation
RECURSIVE StrLess(_, _)
StrLess(a, b) ==
    IF b = <<>> THEN FALSE
    ELSE IF a = <<>> THEN TRUE
    ELSE IF Head(a) = Head(b) THEN StrLess(Tail(a), Tail(b))
    ELSE Ord(Head(a)) < Ord(Head(b))

\* a mutant of SortedStrs: the strings in descending order
RECURSIVE SortedStrsDesc(_)
SortedStrsDesc(S) ==
    IF S = {} THEN <<>>
    ELSE LET m == CHOOSE x \in S : \A y \in S \ {x} : StrLess(y, x)
         IN <<m>> \o SortedStrsDesc(S \ {m})

\* sorted(S) for a set of strings
RECURSIVE SortedStrs(_)
SortedStrs(S) ==
    IF S = {} THEN <<>>
    ELSE LET m == CHOOSE x \in S : \A y \in S \ {x} : StrLess(x, y)
         IN <<m>> \o SortedStrs(S \ {m})

DigitChars == <<"0", "1", "2", "3", "4", "5", "6", "7", "8", "9">>

\* str(n) for n >= 0
RECURSIVE Digits(_)
Digits(n) ==
    IF n < 10 THEN <<DigitChars[n + 1]>>
    ELSE Digits(n \div 10) \o <<DigitChars[(n % 10) + 1]>>

\* f"{n:,}" for n >= 0
RECURSIVE Commas(_)
Commas(n) ==
    IF n < 1000 THEN Digits(n)
    ELSE Commas(n \div 1000)
         \o <<",", DigitChars[((n \div 100) % 10) + 1],
              DigitChars[((n \div 10) % 10) + 1], DigitChars[(n % 10) + 1]>>

\* hundredths h >= 0 printed with two decimals
FmtHundredths(h) ==
    Digits(h \div 100) \o <<".", DigitChars[((h \div 10) % 10) + 1], DigitChars[(h % 10) + 1]>>

\* n/d (n >= 0, d > 0) rounded to an integer, ties to even: the rounding of
\* "%.2f" on a value that the float holds exactly
RoundHalfEven(n, d) ==
    LET q == n \div d
        r == n % d
    IN IF 2 * r > d THEN q + 1
       ELSE IF 2 * r < d THEN q
       ELSE IF q % 2 = 0 THEN q
       ELSE q + 1

Abs(n) == IF n < 0 THEN -n ELSE n

\* f"{x:.2f}" for the rational x = n/d, d > 0
Fmt2(n, d) ==
    (IF n < 0 THEN <<"-">> ELSE <<>>) \o FmtHundredths(RoundHalfEven(100 * Abs(n), d))

\* a mutant of FmtSigned2: the sign of a value that is not negative left out
FmtUnsigned2(n, d) ==
    (IF n < 0 THEN <<"-">> ELSE <<>>) \o FmtHundredths(RoundHalfEven(100 * Abs(n), d))

\* f"{x:+.2f}" for the rational x = n/d, d > 0
FmtSigned2(n, d) ==
    (IF n < 0 THEN <<"-">> ELSE <<"+">>) \o FmtHundredths(RoundHalfEven(100 * Abs(n), d))

\* whitespace-normalized text: runs of blanks and line breaks become one
\* blank, none at either end
RECURSIVE Squeeze(_, _)
Squeeze(s, pendingBlank) ==
    IF s = <<>> THEN <<>>
    ELSE IF IsSpace(Head(s)) THEN Squeeze(Tail(s), TRUE)
    ELSE (IF pendingBlank THEN <<" ">> ELSE <<>>) \o <<Head(s)>> \o Squeeze(Tail(s), FALSE)

Normalize(s) == Squeeze(LStrip(s), FALSE)

(***************************************************************************)
(* analysis/openai_summary.py: the narrative cache                         *)
(***************************************************************************)
D10 == <<"2", "0", "2", "6", "-", "0", "1", "-", "1", "0">>
D11 == <<"2", "0", "2", "6", "-", "0", "1", "-", "1", "1">>
D12 == <<"2", "0", "2", "6", "-", "0", "1", "-", "1", "2">>
Dates == {D10, D11, D12}

TkAB   == <<"A", "B">>
TkACME == <<"A", "C", "M", "E">>
Tickers == {TkAB, TkACME}

Models == {"gpt-5-mini", "gpt-4o-mini"}

Keys == Dates \X Tickers \X Models

\* what the language-model service does with one request: it raises (content
\* is the exception's message) or answers with message.content
TextOk    == <<"o", "k">>
TextBlank == <<" ">>
TextMulti == <<"a", "\n", "-", " ", "b">>
TextBoom  == <<"b", "o", "o", "m">>
LlmOutcomes ==
    {[raises |-> FALSE, content |-> c] : c \in {TextOk, TextBlank, TextMulti}}
    \cup {[raises |-> TRUE, content |-> TextBoom]}

\* get_cached_summary: <<summary>> for the row of the key, <<>> for None
get_cached_summary(cache, key) ==
    IF key \in DOMAIN cache THEN <<cache[key]>> ELSE <<>>

\* save_summary: INSERT ... ON CONFLICT DO UPDATE
save_summary(cache, key, text) == KvSet(cache, key, text)

\* "if cached:" is true of a row whose summary is not the empty string
CacheHit(cached) == cached # <<>> /\ cached[1] # <<>>

\* a mutant of summarize: the message of the exception is saved as the row
\* of the key before the exception leaves
summarize_saving_error(cache, key, out) ==
    LET cached == get_cached_summary(cache, key)
    IN IF CacheHit(cached)
       THEN [raised |-> FALSE, text |-> cached[1], called |-> FALSE, cache |-> cache]
       ELSE IF out.raises
       THEN [raised |-> TRUE, text |-> out.content, called |-> TRUE,
             cache |-> save_summary(cache, key, out.content)]
       ELSE [raised |-> FALSE, text |-> Strip(out.content), called |-> TRUE,
             cache |-> save_summary(cache, key, Strip(out.content))]

\* summarize: the text returned or the exception raised, whether the service
\* was called, and the table afterwards
summarize(cache, key, out) ==
    LET cached == get_cached_summary(cache, key)
    IN IF CacheHit(cached)
       THEN [raised |-> FALSE, text |-> cached[1], called |-> FALSE, cache |-> cache]
       ELSE IF out.raises
       THEN [raised |-> TRUE, text |-> out.content, called |-> TRUE, cache |-> cache]
       ELSE LET text == Strip(out.content)
            IN [raised |-> FALSE, text |-> text, called |-> TRUE,
                cache |-> save_summary(cache, key, text)]

\* a mutant of clear_ai_cache: the DELETE is not committed
clear_uncommitted(cache, d) == cache

\* a mutant of clear_ai_cache: the WHERE clause left out
clear_all(cache, d) == EmptyKv

\* clear_ai_cache: DELETE FROM ai_summaries WHERE report_date=?
clear_ai_cache(cache, d) ==
    [k \in {x \in DOMAIN cache : x[1] # d} |-> cache[k]]

(***************************************************************************)
(* The store read by generate                                              *)
(***************************************************************************)
\* SQL NULL / Python None in a text or integer column
NULL == <<"NULL">>
NullVol == -1

\* x or ""
OrEmpty(x) == IF x = NULL THEN <<>> ELSE x

\* the rows the price feed may deliver: close in hundredths (10.50 is 1050),
\* volume a count or NULL
PriceRows ==
    {[date |-> D10, close |-> 1000, volume |-> 100000],
     [date |-> D10, close |-> 0, volume |-> NullVol],
     [date |-> D11, close |-> 1050, volume |-> 100000],
     [date |-> D11, close |-> 1000, volume |-> 100000],
     [date |-> D12, close |-> 1000, volume |-> 100000],
     [date |-> D12, close |-> 0, volume |-> NullVol]}

NewsFull ==
    [published_at |-> <<"2", "0", "2", "6", "-", "0", "1", "-", "1", "1", "T", "0", "9", ":", "3", "0", ":", "0", "0", "+", "0", "0", ":", "0", "0">>, headline |-> <<" ", "H", "d", " ">>,
     summary |-> <<"S", "m">>, source |-> <<"S", "r", "c">>, url |-> <<"h", "t", "t", "p", "s", ":", "/", "/", "u">>]
NewsBare ==
    [published_at |-> <<"2", "0", "2", "6", "-", "0", "1", "-", "1", "0", "T", "0", "8", ":", "0", "0", ":", "0", "0", "+", "0", "0", ":", "0", "0">>,
     headline |-> NULL, summary |-> NULL, source |-> NULL, url |-> NULL]
NewsItems == {NewsFull, NewsBare}

\* the symbols the news feed has items for
NewsTickers == {TkAB}

\* the rows of S by date, newest first (ORDER BY date DESC)
RECURSIVE RowsDesc(_)
RowsDesc(S) ==
    IF S = {} THEN <<>>
    ELSE LET m == CHOOSE r \in S : \A q \in S \ {r} : StrLess(q.date, r.date)
         IN <<m>> \o RowsDesc(S \ {m})

\* the rows of S by published_at, newest first, NULL last
RECURSIVE NewsDesc(_)
NewsDesc(S) ==
    IF S = {} THEN <<>>
    ELSE LET key(r) == OrEmpty(r.published_at)
             m == CHOOSE r \in S : \A q \in S \ {r} : StrLess(key(q), key(r))
         IN <<m>> \o NewsDesc(S \ {m})

\* the first n elements (LIMIT n)
Limit(s, n) == SubSeq(s, 1, IF Len(s) < n THEN Len(s) ELSE n)

(***************************************************************************)
(* reports/generate_report.py: generate()                                  *)
(***************************************************************************)
IsDigit(c) == c \in {"0", "1", "2", "3", "4", "5", "6", "7", "8", "9"}

\* published_at.replace("Z", "+00:00")
RECURSIVE ReplaceZ(_)
ReplaceZ(s) ==
    IF s = <<>> THEN <<>>
    ELSE (IF Head(s) = "Z" THEN <<"+", "0", "0", ":", "0", "0">> ELSE <<Head(s)>>) \o ReplaceZ(Tail(s))

\* the layouts datetime.fromisoformat accepts: YYYY-MM-DD, then optionally
\* T or a blank and HH:MM, then optionally :SS, then optionally +HH:MM or
\* -HH:MM (the ranges of the fields are not modelled)
IsoShape(s) ==
    LET dg(i) == IsDigit(s[i])
    IN /\ Len(s) \in {10, 16, 19, 25}
       /\ dg(1) /\ dg(2) /\ dg(3) /\ dg(4) /\ s[5] = "-" /\ dg(6) /\ dg(7)
       /\ s[8] = "-" /\ dg(9) /\ dg(10)
       /\ Len(s) >= 16 =>
            (s[11] \in {"T", " "} /\ dg(12) /\ dg(13) /\ s[14] = ":" /\ dg(15) /\ dg(16))
       /\ Len(s) >= 19 => (s[17] = ":" /\ dg(18) /\ dg(19))
       /\ Len(s) = 25 =>
            (s[20] \in {"+", "-"} /\ dg(21) /\ dg(22) /\ s[23] = ":" /\ dg(24) /\ dg(25))

\* dt.strftime("%Y-%m-%d %H:%M")
ShortStamp(s) ==
    SubSeq(s, 1, 10) \o <<" ">> \o (IF Len(s) >= 16 THEN SubSeq(s, 12, 16) ELSE <<"0", "0", ":", "0", "0">>)

\* the display form of published_at: minute precision, or the string as it
\* is when fromisoformat raises
DisplayStamp(published_at) ==
    LET p == OrEmpty(published_at)
        z == ReplaceZ(p)
    IN IF p = <<>> THEN p
       ELSE IF IsoShape(z) THEN ShortStamp(z)
       ELSE p

\* the dict appended to news_items for one news row
NewsDict(row) ==
    [published_at |-> DisplayStamp(row.published_at),
     source |-> Strip(OrEmpty(row.source)),
     headline |-> Strip(OrEmpty(row.headline)),
     summary |-> Strip(OrEmpty(row.summary)),
     url |-> Strip(OrEmpty(row.url))]

\* f"{published_at} | {source} | {headline}"
DisplayLine(it) ==
    it.published_at \o <<" ", "|", " ">> \o it.source \o <<" ", "|", " ">> \o it.headline

\* the lines appended for one news row
NewsLines(it) ==
    <<<<" ", " ", "-", " ">> \o DisplayLine(it)>>
    \o (IF it.summary # <<>> THEN <<<<" ", " ", " ", " ", "-", " ", "S", "u", "m", "m", "a", "r", "y", ":", " ">> \o it.summary>> ELSE <<>>)
    \o (IF it.url # <<>> THEN <<<<" ", " ", " ", " ", "-", " ">> \o it.url>> ELSE <<>>)

\* the lines appended by "for ... in news_rows"
RECURSIVE AllNewsLines(_)
AllNewsLines(items) ==
    IF items = <<>> THEN <<>> ELSE NewsLines(Head(items)) \o AllNewsLines(Tail(items))

TextNoNews == <<"(", "n", "o", " ", "r", "e", "c", "e", "n", "t", " ", "n", "e", "w", "s", ")">>
TextNeedData == <<"(", "n", "e", "e", "d", " ", "a", "t", " ", "l", "e", "a", "s", "t", " ", "2", " ", "t", "r", "a", "d", "i", "n", "g", " ", "d", "a", "y", "s", " ", "o", "f", " ", "p", "r", "i", "c", "e", " ", "d", "a", "t", "a", ")">>

\* f"(Error: {str(e)})"
ErrorText(msg) == <<"(", "E", "r", "r", "o", "r", ":", " ">> \o msg \o <<")">>

RECURSIVE MaxOf(_)
MaxOf(s) == IF Len(s) = 1 THEN s[1]
            ELSE LET m == MaxOf(Tail(s)) IN IF s[1] > m THEN s[1] ELSE m

RECURSIVE MinOf(_)
MinOf(s) == IF Len(s) = 1 THEN s[1]
            ELSE LET m == MinOf(Tail(s)) IN IF s[1] < m THEN s[1] ELSE m

NewsLimit == 3
RangeLimit == 20
LatestLimit == 2

\* latest_map[ticker]: at most the two newest rows, as
\* (str(date), float(close), int(volume) if volume is not None else 0)
LatestItems(rows) ==
    LET top == Limit(RowsDesc(rows), LatestLimit)
    IN [i \in 1..Len(top) |->
           [date |-> top[i].date, close |-> top[i].close,
            volume |-> IF top[i].volume = NullVol THEN 0 ELSE top[i].volume]]

\* a mutant of PctChange: a prior close of 0 counts as a rise of 100 percent
PctChangeFullRise(c0, c1) == IF c0 # 0 THEN <<(c1 - c0) * 100, c0>> ELSE <<100, 1>>

\* pct = (c1 - c0) / c0 * 100 if c0 else 0.0, as the fraction <<n, d>>
PctChange(c0, c1) == IF c0 # 0 THEN <<(c1 - c0) * 100, c0>> ELSE <<0, 1>>

\* a mutant of Closes20: the window holds the older rows only
Closes20Older(rows) ==
    LET r == RowsDesc(rows) IN Limit([i \in 1..(Len(r) - 1) |-> r[i + 1].close], RangeLimit)

\* closes_20: SELECT close ... ORDER BY date DESC LIMIT 20
Closes20(rows) ==
    LET r == RowsDesc(rows) IN Limit([i \in 1..Len(r) |-> r[i].close], RangeLimit)

\* low_20, high_20 and range_pos (as the fraction <<n, d>>) for the latest
\* close c1
RangeOf(c1, closes) ==
    IF closes # <<>>
    THEN LET high == MaxOf(closes)
             low == MinOf(closes)
         IN [low |-> low, high |-> high,
             pos |-> IF high # low THEN <<c1 - low, high - low>> ELSE <<1, 2>>]
    ELSE [low |-> c1, high |-> c1, pos |-> <<1, 2>>]

\* the key/value lines of a block, and the display strings they hold
KvDate(d0, d1) == d0 \o <<" ", "→", " ">> \o d1
KvClose(c0, c1, pct) ==
    Fmt2(c0, 100) \o <<" ", "→", " ">> \o Fmt2(c1, 100) \o <<" ", "(">> \o FmtSigned2(pct[1], pct[2]) \o <<"%", ")">>
KvVolume(v1) == Commas(v1)
KvRange(rg) ==
    <<"l", "o", "w", " ">> \o Fmt2(rg.low, 100) \o <<",", " ", "h", "i", "g", "h", " ">> \o Fmt2(rg.high, 100)
    \o <<",", " ", "p", "o", "s", "i", "t", "i", "o", "n", " ">> \o Fmt2(rg.pos[1], rg.pos[2])

\* f"- Latest: {d1} | Close: {c1:.2f} | Vol: {v1:,}"
LatestLine(it) ==
    <<"-", " ", "L", "a", "t", "e", "s", "t", ":", " ">> \o it.date \o <<" ", "|", " ", "C", "l", "o", "s", "e", ":", " ">> \o Fmt2(it.close, 100)
    \o <<" ", "|", " ", "V", "o", "l", ":", " ">> \o Commas(it.volume)

\* a mutant of NarrativeText: the exception is swallowed into an empty text
NarrativeTextSilent(r) == IF r.raised THEN <<>> ELSE r.text

\* the text after "  - " in the narrative slot, for what summarize did
NarrativeText(r) == IF r.raised THEN ErrorText(r.text) ELSE r.text

\* a mutant of WantsSummary: summarize is called for every symbol
WantsSummaryAlways(items) == TRUE

\* "pct is None" is false: the block has a prior sample
WantsSummary(items) == Len(items) >= 2

\* pct of the block: <<>> stands for None
PctOf(items) ==
    IF Len(items) >= 2 THEN PctChange(items[2].close, items[1].close) ELSE <<>>

\* the display strings of the key/value lines the block holds
KvStrings(items, pct, rg) ==
    IF Len(items) >= 2
    THEN [k \in {"date", "close", "volume", "range"} |->
             CASE k = "date" -> KvDate(items[2].date, items[1].date)
               [] k = "close" -> KvClose(items[2].close, items[1].close, pct)
               [] k = "volume" -> KvVolume(items[1].volume)
               [] OTHER -> KvRange(rg)]
    ELSE [k \in {"range"} |-> KvRange(rg)]

\* the lines before "- News": Date, Close and Volume, or the Latest line
HeadLines(items, kvs) ==
    IF Len(items) >= 2
    THEN <<PfxDate \o <<" ">> \o kvs["date"],
           PfxClose \o <<" ">> \o kvs["close"],
           PfxVolume \o <<" ">> \o kvs["volume"]>>
    ELSE <<LatestLine(items[1])>>

\* news_items: the dicts of the rows SELECT ... ORDER BY published_at DESC
\* LIMIT 3 returns
NewsDicts(newsRows) ==
    LET top == Limit(NewsDesc(newsRows), NewsLimit)
    IN [i \in 1..Len(top) |-> NewsDict(top[i])]

\* the lines after "- News (headline + summary):"
NewsBlock(news_items) ==
    IF news_items = <<>> THEN <<<<" ", " ", "-", " ">> \o TextNoNews>>
    ELSE AllNewsLines(news_items)

\* the narrative step: summarize is called, or the placeholder is written
NarrativeStep(items, cache, key, out) ==
    IF WantsSummary(items) THEN summarize(cache, key, out)
    ELSE [raised |-> FALSE, text |-> TextNeedData, called |-> FALSE, cache |-> cache]

\* the lines of one block and the values computed for it
SectionRecord(ticker, items, kvs, news_items, rg, pct, r, narrative) ==
    [ticker |-> ticker,
     pct |-> pct,
     range |-> rg,
     news_items |-> news_items,
     summarized |-> WantsSummary(items),
     called |-> r.called,
     raised |-> r.raised,
     narrative |-> narrative,
     kv |-> kvs,
     lines |-> <<PfxSection \o ticker>>
               \o HeadLines(items, kvs)
               \o <<<<"-", " ", "N", "e", "w", "s", " ", "(", "h", "e", "a", "d", "l", "i", "n", "e", " ", "+", " ", "s", "u", "m", "m", "a", "r", "y", ")", ":">>>>
               \o NewsBlock(news_items)
               \o <<PfxRange \o <<" ">> \o kvs["range"]>>
               \o <<PfxSummary>>
               \o <<<<" ", " ", "-", " ">> \o narrative>>
               \o <<<<>>>>,
     cache |-> r.cache]

SectionWith(ticker, items, news_items, rg, pct, r) ==
    SectionRecord(ticker, items, KvStrings(items, pct, rg), news_items, rg, pct, r,
                  NarrativeText(r))

SectionOf(ticker, items, news_items, rg, cache, key, out) ==
    SectionWith(ticker, items, news_items, rg, PctOf(items),
                NarrativeStep(items, cache, key, out))

\* one pass of "for ticker in sorted(latest_map.keys())"
GenSection(ticker, rows, newsRows, cache, out, report_date, model) ==
    SectionOf(ticker, LatestItems(rows), NewsDicts(newsRows),
              RangeOf(LatestItems(rows)[1].close, Closes20(rows)),
              cache, <<report_date, ticker, model>>, out)

\* the blocks so far and the cache after them
ConsSection(s, rest) == [secs |-> <<s>> \o rest.secs, cache |-> rest.cache]

\* the loop over sorted(latest_map.keys()), the cache threaded through it
RECURSIVE GenSections(_, _, _, _, _, _, _)
GenAfter(s, tickers, P, N, llm, report_date, model) ==
    ConsSection(s, GenSections(tickers, P, N, s.cache, llm, report_date, model))

GenSections(tickers, P, N, cache, llm, report_date, model) ==
    IF tickers = <<>> THEN [secs |-> <<>>, cache |-> cache]
    ELSE GenAfter(GenSection(Head(tickers), P[Head(tickers)], N[Head(tickers)], cache,
                             llm[Head(tickers)], report_date, model),
                  Tail(tickers), P, N, llm, report_date, model)

\* the keys of latest_map: the tickers that have a row
WithRows(P) == {t \in DOMAIN P : P[t] # {}}

\* a mutant of MaxDate: the oldest of the dates
MinDate(ds) == CHOOSE d \in ds : \A e \in ds \ {d} : StrLess(d, e)

\* the newest of a set of date strings: max(all_latest_dates)
MaxDate(ds) == CHOOSE d \in ds : \A e \in ds \ {d} : StrLess(e, d)

\* a mutant of ReportDate: no fallback to the current date
ReportDateOrNone(P, today) ==
    IF WithRows(P) # {}
    THEN MaxDate({LatestItems(P[t])[1].date : t \in WithRows(P)})
    ELSE <<"N", "o", "n", "e">>

\* report_date: the newest date of any row, or today's date
ReportDate(P, today) ==
    IF WithRows(P) # {}
    THEN MaxDate({LatestItems(P[t])[1].date : t \in WithRows(P)})
    ELSE today

\* f"Daily Market Report ({report_date})"
TitleText(report_date) == <<"D", "a", "i", "l", "y", " ", "M", "a", "r", "k", "e", "t", " ", "R", "e", "p", "o", "r", "t", " ", "(">> \o report_date \o <<")">>

RECURSIVE AllLines(_)
AllLines(secs) == IF secs = <<>> THEN <<>> ELSE Head(secs).lines \o AllLines(Tail(secs))

\* the file written: "\n".join(lines)
MarkupText(report_date, secs) ==
    JoinLines(<<PfxTitle \o TitleText(report_date) \o <<"\n">>>> \o AllLines(secs))

\* os.path.join(output_dir, f"report_{report_date}.md") for output_dir "repo/md"
OutputPath(report_date) == <<"r", "e", "p", "o", "/", "m", "d", "/", "r", "e", "p", "o", "r", "t", "_">> \o report_date \o <<".", "m", "d">>

GenResult(report_date, g) ==
    [report_date |-> report_date,
     path |-> OutputPath(report_date),
     text |-> MarkupText(report_date, g.secs),
     secs |-> g.secs,
     cache |-> g.cache]

GenFor(P, N, cache, llm, model, report_date) ==
    GenResult(report_date,
              GenSections(SortedStrs(WithRows(P)), P, N, cache, llm, report_date, model))

\* generate(): the file written (its date and text), the values computed per
\* section, and the cache afterwards
generate(P, N, cache, llm, today, model) ==
    GenFor(P, N, cache, llm, model, ReportDate(P, today))

(***************************************************************************)
(* Markup lines handed to the parser loop, one or more of every shape the  *)
(* loop distinguishes, well formed and malformed                           *)
(***************************************************************************)
LnTitle    == PfxTitle \o <<"T">>
LnMeta     == PfxMeta \o <<"M">>
LnSecA     == PfxSection \o <<"A">>
LnSecB     == PfxSection \o <<"B">>
LnSecEmpty == PfxSection
LnDate     == PfxDate \o <<" ", "d">>
LnCloseNoV == PfxClose
LnVolume   == PfxVolume \o <<" ", "v">>
LnRange    == PfxRange \o <<" ", "r">>
LnNews     == PfxNews \o <<" ", "(", "h", ")", ":">>
LnSummary  == PfxSummary
LnBullet   == <<" ", " ", "-", " ", "n">>
LnSubSum   == <<" ", " ", " ", " ", "-", " ", "S", "u", "m", "m", "a", "r", "y", ":", " ", "s">>
LnSubUrl   == <<" ", " ", " ", " ", "-", " ", "h", "t", "t", "p", ":", "/", "/", "u">>
LnSubJunk  == <<" ", " ", " ", " ", "-", " ", "j">>
LnPlain    == <<"x">>
LnDashUnk  == <<"-", " ", "L", "a", "t", "e", "s", "t", ":", " ", "z">>
LnBlank    == <<>>
LnHash     == <<"#", "x">>


\* lines that repeat a header with another text, and a meta line without text
LnTitle2   == PfxTitle \o <<"U">>
LnMeta2    == PfxMeta \o <<"N">>
LnMetaNone == PfxMeta
TitleLines == {LnTitle, LnTitle2}
MetaLines  == {LnMeta, LnMeta2, LnMetaNone}
HeaderLines == {LnSecA, LnSecB, LnSecEmpty}

ValidLines ==
    {LnTitle, LnMeta, LnSecA, LnSecB, LnSecEmpty, LnDate, LnCloseNoV, LnVolume,
     LnRange, LnNews, LnSummary, LnBullet, LnSubSum, LnSubUrl, LnSubJunk}

\* a line of one of the shapes the grammar names: a header, a key/value
\* line, a block header, a 2-space or a 4-space bullet
Recognized(line) ==
    \/ StartsWith(line, PfxTitle) \/ StartsWith(line, PfxMeta)
    \/ StartsWith(line, PfxSection)
    \/ StartsWith(line, PfxDate) \/ StartsWith(line, PfxClose)
    \/ StartsWith(line, PfxVolume) \/ StartsWith(line, PfxRange)
    \/ StartsWith(line, PfxNews)
    \/ StartsWith(line, PfxAISum) \/ StartsWith(line, PfxSummary)
    \/ BulletMatch(line, 2) \/ BulletMatch(line, 4)

UnknownLines == {LnPlain, LnDashUnk, LnBlank, LnHash}

InputLines == ValidLines \cup UnknownLines

MaxLines == 5

parseVars == <<pst, ref, ins, prev, fed>>

InitParseVars ==
    /\ pst = InitPst
    /\ ref = InitPst
    /\ ins = <<>>
    /\ prev = FALSE
    /\ fed = 0

\* the loop reads the next line of the text
Feed(line) ==
    /\ fed < MaxLines
    /\ pst' = ParseLine(pst, line)
    /\ ref' = ParseLine(ref, line)
    /\ fed' = fed + 1
    /\ prev' = (line \in ValidLines)
    /\ ins' = IF ins # <<>> /\ ins[1].next = "pending"
              THEN <<[ins[1] EXCEPT !.next = IF line \in ValidLines THEN "valid"
                                             ELSE "other"]>>
              ELSE ins
    /\ UNCHANGED <<ai_summaries, MODEL, given, pending, last, ops>>
    /\ UNCHANGED <<prices, news, md, gen, report, pc>>
    /\ UNCHANGED fetch

\* the loop reads the next line of the text, no reference text beside it
Read(line) ==
    /\ report = <<>>
    /\ fed < MaxLines
    /\ pst' = ParseLine(pst, line)
    /\ fed' = fed + 1
    /\ UNCHANGED <<ref, ins, prev>>
    /\ UNCHANGED <<ai_summaries, MODEL, given, pending, last, ops>>
    /\ UNCHANGED <<prices, news, md, gen, report, pc>>
    /\ UNCHANGED fetch

\* the text ends here: parse_report returns and export_pdf renders the report
Export ==
    /\ report = <<>>
    /\ report' = <<Exported([report |-> Finish(pst), err |-> pst.err])>>
    /\ UNCHANGED <<pst, ref, ins, prev, fed>>
    /\ UNCHANGED <<ai_summaries, MODEL, given, pending, last, ops>>
    /\ UNCHANGED <<prices, news, md, gen, pc>>
    /\ UNCHANGED fetch

\* the loop reads a line of an unrecognized shape that the reference text
\* does not hold, after a line of the grammar
Insert(line) ==
    /\ ins = <<>>
    /\ prev
    /\ fed < MaxLines
    /\ ~Recognized(line)
    /\ pst' = ParseLine(pst, line)
    /\ ref' = ref
    /\ ins' = <<[mode |-> pst.mode, line |-> line, next |-> "pending"]>>
    /\ prev' = FALSE
    /\ fed' = fed
    /\ UNCHANGED <<ai_summaries, MODEL, given, pending, last, ops>>
    /\ UNCHANGED <<prices, news, md, gen, report, pc>>
    /\ UNCHANGED fetch


(***************************************************************************)
(* SpecCache: calls of summarize and clear_ai_cache on the narrative cache *)
(***************************************************************************)
MaxOps == 4

cacheVars == <<ai_summaries, MODEL, given, pending, last, ops>>

\* what the last call was and did: for summarize its key, the text returned
\* (or the message raised), whether the service was called, the text given
\* for the key before the call, and whether the key's row had been cleared
NoCall ==
    [op |-> "none", key |-> <<>>, text |-> <<>>, called |-> FALSE, raised |-> FALSE,
     prior |-> <<>>, cleared |-> FALSE]

InitCacheVars ==
    /\ ai_summaries = EmptyKv
    /\ MODEL \in Models
    /\ given = [k \in Keys |-> <<>>]
    /\ pending = {}
    /\ last = NoCall
    /\ ops = 0

\* the bookkeeping of one summarize call that did r
Summarized(key, r) ==
    /\ ai_summaries' = r.cache
    /\ given' = IF r.raised THEN given ELSE [given EXCEPT ![key] = <<r.text>>]
    /\ pending' = pending \ {key}
    /\ last' = [op |-> "summarize", key |-> key, text |-> r.text, called |-> r.called,
                raised |-> r.raised, prior |-> given[key], cleared |-> key \in pending]

\* summarize(report_date = d, ticker = t, ...) in a process whose model is
\* MODEL; out is what the service does if it is called
CallSummarize(d, t, out) ==
    /\ ops < MaxOps
    /\ Summarized(<<d, t, MODEL>>, summarize(ai_summaries, <<d, t, MODEL>>, out))
    /\ ops' = ops + 1
    /\ MODEL' = MODEL
    /\ UNCHANGED <<parseVars, prices, news, md, gen, report, pc>>
    /\ UNCHANGED fetch

\* clear_ai_cache(d); pending holds the keys whose text the call removed
CallClear(d) ==
    /\ ops < MaxOps
    /\ ai_summaries' = clear_ai_cache(ai_summaries, d)
    /\ given' = [k \in Keys |-> IF k[1] = d THEN <<>> ELSE given[k]]
    /\ pending' = pending \cup {k \in Keys : k[1] = d /\ given[k] # <<>>}
    /\ last' = [NoCall EXCEPT !.op = "clear", !.text = d]
    /\ ops' = ops + 1
    /\ MODEL' = MODEL
    /\ UNCHANGED <<parseVars, prices, news, md, gen, report, pc>>
    /\ UNCHANGED fetch

\* a later process started with another OPENAI_MODEL
Restart(m) ==
    /\ ops < MaxOps
    /\ m # MODEL
    /\ MODEL' = m
    /\ last' = NoCall
    /\ ops' = ops + 1
    /\ UNCHANGED <<ai_summaries, given, pending>>
    /\ UNCHANGED <<parseVars, prices, news, md, gen, report, pc>>
    /\ UNCHANGED fetch

(***************************************************************************)
(* The run of main: the collectors fill the store, generate writes the     *)
(* markup file, export_pdf parses it                                       *)
(***************************************************************************)
MaxStoreRows == 4

\* _call_alpha_vantage(ticker, max_retries = 3)
MaxRetries == 3

\* the tickers of config/tickers.yaml, in the order of the file
FetchTickers == <<TkAB, TkACME>>

\* what the price service answers to one request: a time series with a row,
\* an empty time series, a notice of the daily quota, a notice of the rate
\* per minute, or something else
Responses == {"series", "empty", "daily", "minute", "other"}

\* run before its first request: the ticker at hand, the attempts made for
\* it, the requests made per ticker, the seconds slept, whether the loop
\* runs, ended or was left by an exception, and the answer to the last request
IdleFetch ==
    [i |-> 1, attempt |-> 0, reqs |-> [t \in Tickers |-> 0], slept |-> 0,
     status |-> "running", notice |-> "none"]

\* _call_alpha_vantage returned None: fetch_last_n_days evaluates
\* data.get(...) on None, and the AttributeError leaves fetch_last_n_days and
\* run, which catch nothing
ReturnsNone(f) == [f EXCEPT !.status = "raised"]

\* fetch_last_n_days returned a list: the records are saved, time.sleep(15),
\* and the loop goes on to the next ticker or ends
NextTicker(f) ==
    [f EXCEPT !.i = @ + 1, !.attempt = 0, !.slept = @ + 15,
              !.status = IF f.i = Len(FetchTickers) THEN "ended" ELSE "running"]

\* the rate notice: time.sleep(60 * (attempt + 1)) and the next pass of the
\* loop over range(max_retries), after the last of which None is returned
RateLimited(f) ==
    IF f.attempt + 1 < MaxRetries
    THEN [f EXCEPT !.attempt = @ + 1, !.slept = @ + 60 * (f.attempt + 1)]
    ELSE ReturnsNone([f EXCEPT !.attempt = @ + 1, !.slept = @ + 60 * (f.attempt + 1)])

\* what run does with the answer to one request, up to the next request
AfterResponse(f, resp) ==
    CASE resp \in {"series", "empty"} -> NextTicker(f)
      [] resp = "minute" -> RateLimited(f)
      [] OTHER -> ReturnsNone(f)

\* one requests.get of _call_alpha_vantage for the ticker at hand and what
\* follows it; row is the record of the time series, if one is answered
Request(resp, row) ==
    /\ fetch.status = "running"
    /\ fetch' = AfterResponse([fetch EXCEPT !.reqs[FetchTickers[fetch.i]] = @ + 1,
                                            !.notice = resp], resp)
    /\ prices' = IF resp = "series"
                 THEN [prices EXCEPT ![FetchTickers[fetch.i]] =
                                         {r \in @ : r.date # row.date} \cup {row}]
                 ELSE prices
    /\ UNCHANGED <<news, md, gen, report, pc>>
    /\ UNCHANGED <<pst, ref, ins, prev, fed>>
    /\ UNCHANGED <<ai_summaries, MODEL, given, pending, last, ops>>

storeVars == <<prices, news>>
runVars == <<md, gen, report, pc>>

StoreRows ==
    LET n(S) == Cardinality(S)
    IN n(prices[TkAB]) + n(prices[TkACME]) + n(news[TkAB]) + n(news[TkACME])

\* the date datetime.now() may give
Todays == {D12}

\* rows of ai_summaries left by an earlier run
EarlierCaches == {EmptyKv, [k \in {<<D11, TkACME, "gpt-5-mini">>} |-> TextOk]}

InitRunVars ==
    /\ prices = [t \in Tickers |-> {}]
    /\ news = [t \in Tickers |-> {}]
    /\ md = <<>>
    /\ gen = <<>>
    /\ report = <<>>
    /\ pc = "fetch"
    /\ fetch = IdleFetch

\* fetch_prices.save_to_db: INSERT ... ON CONFLICT(ticker, date) DO UPDATE
save_to_db(t, row) ==
    LET rows == {r \in prices[t] : r.date # row.date} \cup {row}
    IN /\ pc = "fetch"
       /\ row \notin prices[t]
       /\ StoreRows - Cardinality(prices[t]) + Cardinality(rows) <= MaxStoreRows
       /\ prices' = [prices EXCEPT ![t] = rows]
       /\ UNCHANGED <<news, md, gen, report, pc>>
       /\ UNCHANGED <<parseVars, cacheVars>>
       /\ UNCHANGED fetch

\* fetch_news.save_news_items, one item
save_news_items(t, item) ==
    /\ pc = "fetch"
    /\ item \notin news[t]
    /\ StoreRows < MaxStoreRows
    /\ news' = [news EXCEPT ![t] = @ \cup {item}]
    /\ UNCHANGED <<prices, md, gen, report, pc>>
    /\ UNCHANGED <<parseVars, cacheVars>>
    /\ UNCHANGED fetch

\* main calls generate(); llm is what the service does with the request made
\* for each symbol, if one is made
Written(g) ==
    /\ md' = <<[report_date |-> g.report_date, path |-> g.path, text |-> g.text]>>
    /\ gen' = g.secs
    /\ ai_summaries' = g.cache

Generate(llm, today) ==
    /\ pc \in {"fetch", "cleared"}
    /\ Written(generate(prices, news, ai_summaries, llm, today, MODEL))
    /\ pc' = IF pc = "fetch" THEN "generated" ELSE "regenerated"
    /\ UNCHANGED <<prices, news, report>>
    /\ UNCHANGED <<parseVars, MODEL, given, pending, last, ops>>
    /\ UNCHANGED fetch

\* main with --refresh-ai: clear_ai_cache(report_date) with the date the
\* first generate returned; the second generate is the step Generate again
RefreshClear ==
    /\ pc = "generated"
    /\ ai_summaries' = clear_ai_cache(ai_summaries, md[1].report_date)
    /\ pc' = "cleared"
    /\ UNCHANGED <<prices, news, md, gen, report>>
    /\ UNCHANGED <<parseVars, MODEL, given, pending, last, ops>>
    /\ UNCHANGED fetch

\* main calls export_pdf(md_path, pdf_path): the file is read, parsed and
\* rendered
ExportPdf ==
    /\ pc \in {"generated", "regenerated"}
    /\ report' = <<Exported(parse_report(md[1].text))>>
    /\ pc' = IF pc = "generated" THEN "done" ELSE "done_refreshed"
    /\ UNCHANGED <<prices, news, md, gen>>
    /\ UNCHANGED <<parseVars, cacheVars>>
    /\ UNCHANGED fetch

(***************************************************************************)
(* Specifications                                                          *)
(***************************************************************************)
vars == <<pst, ref, ins, prev, fed, ai_summaries, MODEL, given, pending, last, ops,
          prices, news, md, gen, report, pc, fetch>>

\* the store and the run as a process that never runs main leaves them
IdleRun == InitRunVars

\* the cache as a process that only parses leaves it
IdleCache ==
    /\ ai_summaries = EmptyKv
    /\ MODEL = "gpt-5-mini"
    /\ given = [k \in Keys |-> <<>>]
    /\ pending = {}
    /\ last = NoCall
    /\ ops = 0

\* parse_report on every text of at most MaxLines lines
InitParse == InitParseVars /\ IdleCache /\ IdleRun

NextParse ==
    \/ \E line \in InputLines : Feed(line)
    \/ \E line \in UnknownLines : Insert(line)

SpecParse == InitParse /\ [][NextParse]_vars

\* the loop of parse_report alone on every text of at most MaxLines lines
NextLoop ==
    \/ \E line \in InputLines : Read(line)
    \/ Export

SpecLoop == InitParse /\ [][NextLoop]_vars

\* summarize and clear_ai_cache called in any order
InitCache == InitCacheVars /\ InitParseVars /\ IdleRun

NextCache ==
    \/ \E d \in Dates, t \in Tickers, out \in LlmOutcomes : CallSummarize(d, t, out)
    \/ \E d \in Dates : CallClear(d)
    \/ \E m \in Models : Restart(m)

SpecCache == InitCache /\ [][NextCache]_vars

\* the price rows of a symbol that earlier runs left in the store
StoredPrices ==
    {{},
     {[date |-> D10, close |-> 1000, volume |-> 100000]},
     {[date |-> D10, close |-> 1000, volume |-> 100000],
      [date |-> D11, close |-> 1050, volume |-> 100000]}}

\* one run of main --no-fetch, with or without --refresh-ai, on a store and
\* a narrative cache that earlier runs left
InitRefresh ==
    /\ prices \in [Tickers -> StoredPrices]
    /\ news \in {[t \in Tickers |-> {}],
                 [t \in Tickers |-> IF t = TkAB THEN {NewsFull} ELSE {}]}
    /\ md = <<>>
    /\ gen = <<>>
    /\ report = <<>>
    /\ pc = "fetch"
    /\ fetch = IdleFetch
    /\ InitParseVars
    /\ ai_summaries \in EarlierCaches
    /\ MODEL = "gpt-5-mini"
    /\ given = [k \in Keys |-> <<>>]
    /\ pending = {}
    /\ last = NoCall
    /\ ops = 0

NextRefresh ==
    \/ \E llm \in [Tickers -> LlmOutcomes], today \in Todays : Generate(llm, today)
    \/ RefreshClear
    \/ ExportPdf

SpecRefresh == InitRefresh /\ [][NextRefresh]_vars

\* fetch_prices.run against a service that answers each request in any way
InitFetch == InitRunVars /\ InitParseVars /\ IdleCache

NextFetch == \E resp \in Responses, row \in PriceRows : Request(resp, row)

SpecFetch == InitFetch /\ [][NextFetch]_vars

\* one run of main on a store of at most MaxStoreRows rows
Init ==
    /\ InitRunVars
    /\ InitParseVars
    /\ ai_summaries \in EarlierCaches
    /\ MODEL = "gpt-5-mini"
    /\ given = [k \in Keys |-> <<>>]
    /\ pending = {}
    /\ last = NoCall
    /\ ops = 0

Next ==
    \/ \E t \in Tickers, row \in PriceRows : save_to_db(t, row)
    \/ \E t \in NewsTickers, item \in NewsItems : save_news_items(t, item)
    \/ \E llm \in [Tickers -> LlmOutcomes], today \in Todays : Generate(llm, today)
    \/ ExportPdf

Spec == Init /\ [][Next]_vars

(***************************************************************************)
(* Claims about parse_report, checked under SpecParse                      *)
(***************************************************************************)

\* the line was inserted between two lines of the grammar
InsertedBetween == ins # <<>> /\ ins[1].next = "valid"

\* C2 as stated: whatever the mode at the insertion point, the report parsed
\* from the text with a line of an unrecognized shape inserted between two
\* valid lines equals the report parsed from the text without it.
C2_AnyMode == InsertedBetween => Finish(pst) = Finish(ref)

\* C2 as amended: the reports are equal when the parser is in mode none or
\* news at the insertion point, and in narrative mode when the inserted line
\* is blank or starts with "- "; any other line met in narrative mode is a
\* continuation of the narrative.
C2_Tolerance ==
    (/\ ins # <<>>
     /\ \/ ins[1].mode # "ai"
        \/ Strip(ins[1].line) = <<>>
        \/ StartsWith(ins[1].line, PfxDash))
    => Finish(pst) = Finish(ref)

\* an unknown "- " line was inserted in narrative mode, between a narrative
\* bullet and another line of the grammar
C2_Witness ==
    /\ InsertedBetween
    /\ ins[1].mode = "ai"
    /\ ins[1].line = LnDashUnk
    /\ Finish(pst).sections # <<>>
    /\ Finish(pst).sections[1].ai # <<>>

\* C4: parse_report raises for no input text: no statement of the loop
\* fails, whatever lines were read, and a report is returned.
C4_Total ==
    /\ pst.err = FALSE
    /\ Len(Finish(pst).sections) = Len(pst.sections) + Len(pst.cur)

\* malformed lines were read without an error: a header with an empty name,
\* a key/value prefix with an empty value, and a news block left without item
C4_Witness ==
    /\ pst.err = FALSE
    /\ pst.cur # <<>>
    /\ pst.cur[1].ticker = <<>>
    /\ "close" \in DOMAIN pst.cur[1].kv
    /\ pst.cur[1].kv["close"] = <<>>
    /\ pst.mode = "news"
    /\ pst.last_news = 0
    /\ fed = MaxLines


(***************************************************************************)
(* Claims on the narrative cache, checked under SpecCache                  *)
(***************************************************************************)

\* C8 as stated: when summarize is called for a triple for which it returned
\* a text earlier, with no clear_ai_cache of that date since, it returns that
\* same text and does not call the language-model service.
C8_Idempotent ==
    (last.op = "summarize" /\ last.prior # <<>>)
    => (~last.called /\ ~last.raised /\ last.text = last.prior[1])

\* C9: right after clear_ai_cache(d) no triple of date d has a cached
\* narrative and every triple of another date has the narrative it had; and
\* the first summarize call for a triple whose narrative was cleared calls the
\* language-model service.
C9_Clear ==
    /\ (last.op = "clear") =>
           \A k \in Keys :
               IF k[1] = last.text \/ given[k] = <<>>
               THEN k \notin DOMAIN ai_summaries
               ELSE k \in DOMAIN ai_summaries /\ ai_summaries[k] = given[k][1]
    /\ (last.op = "summarize" /\ last.cleared) => last.called

\* a narrative was cleared, the narrative of another date was kept, and the
\* next summarize call for the cleared triple called the service
C9_Witness ==
    /\ last.op = "summarize"
    /\ last.cleared
    /\ last.called
    /\ \E k \in DOMAIN ai_summaries : k[1] # last.key[1]

(***************************************************************************)
(* Claims on the run of main, checked under Spec                           *)
(***************************************************************************)
Contains(s, sub) ==
    \E i \in 0..(Len(s) - Len(sub)) : SubSeq(s, i + 1, i + Len(sub)) = sub

HasLine(lines, l) == \E i \in DOMAIN lines : lines[i] = l

SameText(a, b) == Normalize(a) = Normalize(b)

\* the news entries the block of e shows: its items, or the line written when
\* it has none
ExpectedNews(e) ==
    IF e.news_items = <<>>
    THEN <<[line |-> TextNoNews, summary |-> <<>>, url |-> <<>>]>>
    ELSE [j \in DOMAIN e.news_items |->
             [line |-> DisplayLine(e.news_items[j]),
              summary |-> e.news_items[j].summary,
              url |-> e.news_items[j].url]]

SameNews(p, e) ==
    /\ Len(p) = Len(e)
    /\ \A j \in DOMAIN p :
           /\ SameText(p[j].line, e[j].line)
           /\ SameText(p[j].summary, e[j].summary)
           /\ SameText(p[j].url, e[j].url)

\* the parsed section p holds what generate computed for the block e
Recovers(p, e) ==
    /\ p.ticker = e.ticker
    /\ DOMAIN p.kv = DOMAIN e.kv
    /\ \A k \in DOMAIN p.kv : SameText(p.kv[k], e.kv[k])
    /\ SameNews(p.news, ExpectedNews(e))
    /\ SameText(p.ai, e.narrative)

RecoversAll(secs, blocks) ==
    /\ Len(secs) = Len(blocks)
    /\ \A i \in DOMAIN secs : Recovers(secs[i], blocks[i])

\* C1 as stated: parse_report applied to the markup generate wrote recovers,
\* section by section and in order, the symbol, the key/value display
\* strings, the news lines with their summaries and urls, and the narrative
\* text of every block, up to whitespace.
C1_RoundTrip == (pc = "done") => RecoversAll(report[1].report.sections, gen)

\* the service's outcomes in which summarize can raise for x only
FailsFor(x) == {llm \in [Tickers -> LlmOutcomes] : \A t \in Tickers : llm[t].raises <=> (t = x)}

Succeeds == [raises |-> FALSE, content |-> TextOk]

\* the run g, in which summarize raised for a symbol, against the run base
\* in which it did not
DegradesTo(g, base) ==
    /\ g.text # <<>>
    /\ Len(g.secs) = Len(base.secs)
    /\ \A i \in DOMAIN g.secs :
           /\ g.secs[i].ticker = base.secs[i].ticker
           /\ g.secs[i].kv = base.secs[i].kv
           /\ g.secs[i].news_items = base.secs[i].news_items
           /\ IF g.secs[i].raised
              THEN /\ g.secs[i].narrative = ErrorText(TextBoom)
                   /\ SubSeq(g.secs[i].lines, Len(g.secs[i].lines) - 2, Len(g.secs[i].lines))
                        = <<PfxSummary, <<" ", " ", "-", " ", "(", "E", "r", "r", "o", "r", ":", " ", "b", "o", "o", "m", ")">>, <<>>>>
              ELSE /\ g.secs[i].narrative = base.secs[i].narrative
                   /\ g.secs[i].lines = base.secs[i].lines

\* C3: when summarize raises for symbol X only, generate still writes the
\* markup, every other symbol's block is the block of the run in which
\* summarize did not raise, and X's narrative slot is the single line
\* "(Error: <message>)"; X's key/value lines and news are unchanged too.
C3_Degradation ==
    /\ (pc = "fetch") =>
           \A x \in Tickers, today \in Todays : \A llm \in FailsFor(x) :
               DegradesTo(generate(prices, news, ai_summaries, llm, today, MODEL),
                          generate(prices, news, ai_summaries,
                                   [llm EXCEPT ![x] = Succeeds], today, MODEL))
    /\ (pc # "fetch") =>
           /\ md # <<>>
           /\ \A i \in DOMAIN gen :
                  gen[i].raised =>
                      /\ gen[i].narrative = ErrorText(TextBoom)
                      /\ Contains(md[1].text, <<" ", " ", "-", " ", "(", "E", "r", "r", "o", "r", ":", " ", "b", "o", "o", "m", ")", "\n">>)

\* a run of two symbols in which summarize raised for one and returned a
\* text from the service for the other
C3_Witness ==
    /\ pc = "generated"
    /\ Len(gen) = 2
    /\ \E i, j \in DOMAIN gen :
           /\ gen[i].raised
           /\ gen[j].called /\ ~gen[j].raised
           /\ gen[j].narrative = TextOk

OneSample(t) == Cardinality(prices[t]) = 1

\* C5: for a symbol with exactly 1 price sample generate sets pct to None,
\* does not call summarize, writes no percent figure and writes the
\* placeholder "(need at least 2 trading days of price data)" in the block;
\* the markup is written, and the section parse_report returns for the symbol
\* has the placeholder as its narrative and no empty key/value field.
C5_Placeholder ==
    (pc # "fetch") =>
        /\ md # <<>>
        /\ \A i \in DOMAIN gen :
               OneSample(gen[i].ticker) =>
                   /\ gen[i].pct = <<>>
                   /\ ~gen[i].summarized
                   /\ ~gen[i].called
                   /\ \A j \in DOMAIN gen[i].lines : ~Contains(gen[i].lines[j], <<"%">>)
                   /\ HasLine(gen[i].lines, <<" ", " ", "-", " ", "(", "n", "e", "e", "d", " ", "a", "t", " ", "l", "e", "a", "s", "t", " ", "2", " ", "t", "r", "a", "d", "i", "n", "g", " ", "d", "a", "y", "s", " ", "o", "f", " ", "p", "r", "i", "c", "e", " ", "d", "a", "t", "a", ")">>)
                   /\ (pc = "done") =>
                          /\ i \in DOMAIN report[1].report.sections
                          /\ report[1].report.sections[i].ticker = gen[i].ticker
                          /\ report[1].report.sections[i].ai = TextNeedData
                          /\ \A k \in DOMAIN report[1].report.sections[i].kv :
                                 report[1].report.sections[i].kv[k] # <<>>

\* the markup of a symbol with 1 sample, beside a symbol with 2, was parsed
C5_Witness ==
    /\ pc = "done"
    /\ Len(gen) = 2
    /\ OneSample(gen[1].ticker)
    /\ ~OneSample(gen[2].ticker)

\* C6: the range position generate computes for a symbol, the fraction
\* pos[1] / pos[2], lies in [0, 1] when the window's high differs from its
\* low, and is 1 / 2 when they are equal.
C6_RangeBounds ==
    (pc # "fetch") =>
        \A i \in DOMAIN gen :
            IF gen[i].range.high # gen[i].range.low
            THEN /\ gen[i].range.pos[2] > 0
                 /\ 0 <= gen[i].range.pos[1]
                 /\ gen[i].range.pos[1] <= gen[i].range.pos[2]
            ELSE gen[i].range.pos = <<1, 2>>

\* one symbol whose latest close is strictly inside its window, beside one
\* whose window has high = low
C6_Witness ==
    /\ pc # "fetch"
    /\ \E i, j \in DOMAIN gen :
           /\ gen[i].range.high # gen[i].range.low
           /\ 0 < gen[i].range.pos[1]
           /\ gen[i].range.pos[1] < gen[i].range.pos[2]
           /\ gen[j].range.high = gen[j].range.low

\* the store of the example: ACME at 10.00 on 2026-01-10 and at 10.50, with
\* volume 100000, on 2026-01-11, and no news of ACME
AcmeExample ==
    /\ prices[TkACME] = {[date |-> D10, close |-> 1000, volume |-> 100000],
                         [date |-> D11, close |-> 1050, volume |-> 100000]}
    /\ news[TkACME] = {}

\* C7: on the store of the example generate writes a block of ACME with the
\* lines "- Date: 2026-01-10 → 2026-01-11", "- Close: 10.00 → 10.50
\* (+5.00%)", "- Volume: 100,000" and "  - (no recent news)", and computes
\* the range position 1.0 (written "position 1.00").
C7_Example ==
    (pc # "fetch" /\ AcmeExample) =>
        \E i \in DOMAIN gen :
            /\ gen[i].ticker = TkACME
            /\ HasLine(gen[i].lines, <<"-", " ", "D", "a", "t", "e", ":", " ", "2", "0", "2", "6", "-", "0", "1", "-", "1", "0", " ", "→", " ", "2", "0", "2", "6", "-", "0", "1", "-", "1", "1">>)
            /\ HasLine(gen[i].lines, <<"-", " ", "C", "l", "o", "s", "e", ":", " ", "1", "0", ".", "0", "0", " ", "→", " ", "1", "0", ".", "5", "0", " ", "(", "+", "5", ".", "0", "0", "%", ")">>)
            /\ HasLine(gen[i].lines, <<"-", " ", "V", "o", "l", "u", "m", "e", ":", " ", "1", "0", "0", ",", "0", "0", "0">>)
            /\ HasLine(gen[i].lines, <<" ", " ", "-", " ", "(", "n", "o", " ", "r", "e", "c", "e", "n", "t", " ", "n", "e", "w", "s", ")">>)
            /\ gen[i].range.pos[1] = gen[i].range.pos[2]
            /\ HasLine(gen[i].lines, <<"-", " ", "2", "0", "D", " ", "R", "a", "n", "g", "e", ":", " ", "l", "o", "w", " ", "1", "0", ".", "0", "0", ",", " ", "h", "i", "g", "h", " ", "1", "0", ".", "5", "0", ",", " ", "p", "o", "s", "i", "t", "i", "o", "n", " ", "1", ".", "0", "0">>)
            /\ Contains(md[1].text, <<"#", "#", "#", " ", "A", "C", "M", "E", "\n", "-", " ", "D", "a", "t", "e", ":", " ", "2", "0", "2", "6", "-", "0", "1", "-", "1", "0", " ", "→", " ", "2", "0", "2", "6", "-", "0", "1", "-", "1", "1", "\n">>)

C7_Witness == pc = "generated" /\ AcmeExample

Placeholders == {<<"(", "u", "n", "k", "n", "o", "w", "n", ")">>, <<"(", "m", "i", "s", "s", "i", "n", "g", ")">>}

\* the lines written for the item show a placeholder token
ShowsPlaceholder(it) ==
    \E i \in DOMAIN NewsLines(it), p \in Placeholders : Contains(NewsLines(it)[i], p)

\* C10 as stated: for every news item written into the markup, a source,
\* headline, summary or url that is missing or empty appears as the token
\* "(unknown)" or "(missing)" in the item's lines.
C10_Placeholders ==
    (pc # "fetch") =>
        \A i \in DOMAIN gen : \A j \in DOMAIN gen[i].news_items :
            \A f \in {"source", "headline", "summary", "url"} :
                (gen[i].news_items[j][f] = <<>>) => ShowsPlaceholder(gen[i].news_items[j])


(***************************************************************************)
(* Claims on the parser's rules, checked under SpecParse: the rule is      *)
(* stated for the line read next, whatever it is, after every text read    *)
(***************************************************************************)

\* a "### " line was read
HeaderSeen == pst.cur # <<>> \/ pst.sections # <<>>

\* C11 as stated: once a single-# header line has set the title, a later
\* single-# header line leaves the title as it is, wherever it occurs.
C11_FirstTitleOnly ==
    (pst.title # <<>>) =>
        \A line \in TitleLines : ParseLine(pst, line).title = pst.title

\* C12 as stated: a "## " line read after a "### " header, or after the meta
\* line was set, leaves the meta line as it is.
C12_FirstMetaBeforeHeader ==
    (pst.meta # <<>> \/ HeaderSeen) =>
        \A line \in MetaLines : ParseLine(pst, line).meta = pst.meta

\* C13 as stated: the report holds one section per symbol, the last block
\* declared for it, and a block opens empty: nothing of an earlier block of
\* the symbol is in it.
C13_LastBlockWins ==
    /\ \A i, j \in DOMAIN Finish(pst).sections :
           (i # j) => Finish(pst).sections[i].ticker # Finish(pst).sections[j].ticker
    /\ \A line \in HeaderLines :
           ParseLine(pst, line).cur = <<NewSection(Strip(SubSeq(line, 5, Len(line))))>>


(***************************************************************************)
(* Claims on the report date and the order of the blocks, under Spec       *)
(***************************************************************************)
StoreEmpty == \A t \in Tickers : prices[t] = {}

AllPriceDates == {r.date : r \in UNION {prices[t] : t \in Tickers}}

\* C14: the report date generate chooses is the newest date of any price
\* row, which is the maximum of the symbols' latest dates, or the current
\* date when the store has no price row; the markup file is named
\* report_<date>.md and its first line is the title with this date.
C14_ReportDate ==
    (pc # "fetch") =>
        /\ IF StoreEmpty THEN md[1].report_date \in Todays
           ELSE /\ md[1].report_date \in AllPriceDates
                /\ \A d \in AllPriceDates :
                       d = md[1].report_date \/ StrLess(d, md[1].report_date)
        /\ md[1].path = <<"r", "e", "p", "o", "/", "m", "d", "/", "r", "e", "p", "o", "r", "t", "_">> \o md[1].report_date \o <<".", "m", "d">>
        /\ StartsWith(md[1].text,
                      <<"#", " ", "D", "a", "i", "l", "y", " ", "M", "a", "r", "k", "e", "t", " ", "R", "e", "p", "o", "r", "t", " ", "(">> \o md[1].report_date \o <<")", "\n">>)

\* both symbols have price rows, the latest of ACME older than the latest of
\* AB, which is older than the current date
C14_Witness ==
    /\ pc # "fetch"
    /\ prices[TkAB] # {} /\ prices[TkACME] # {}
    /\ md[1].report_date = D11
    /\ \A r \in prices[TkACME] : r.date = D10

IsSectionLine(l) == StartsWith(l, PfxSection)

\* the symbols of the "### " lines of a markup text, in the order of the text
BlockSymbols(text) ==
    LET hs == SelectSeq(SplitLines(text), IsSectionLine)
    IN [i \in DOMAIN hs |-> SubSeq(hs[i], 5, Len(hs[i]))]

\* C15: the markup holds one "### <symbol>" line per symbol with a price
\* row and none for another symbol, and these lines are in strictly
\* ascending order of the symbols.
C15_SortedBlocks ==
    (pc # "fetch") =>
        LET syms == BlockSymbols(md[1].text)
        IN /\ {syms[i] : i \in DOMAIN syms} = {t \in Tickers : prices[t] # {}}
           /\ Len(syms) = Cardinality({t \in Tickers : prices[t] # {}})
           /\ \A i, j \in DOMAIN syms : (i < j) => StrLess(syms[i], syms[j])

\* a markup with a block for each of the two symbols
C15_Witness ==
    /\ pc # "fetch"
    /\ prices[TkAB] # {} /\ prices[TkACME] # {}
    /\ BlockSymbols(md[1].text) = <<TkAB, TkACME>>

\* C16: with no price row in the store the run reaches its end: the markup
\* is the title line alone, the parsed report has that title, no meta line
\* and no section, no statement of the parser fails, and the flow is the
\* title paragraph alone.
C16_EmptyStore ==
    StoreEmpty =>
        /\ (pc # "fetch") =>
               \E d \in Todays : md[1].text = <<"#", " ", "D", "a", "i", "l", "y", " ", "M", "a", "r", "k", "e", "t", " ", "R", "e", "p", "o", "r", "t", " ", "(">> \o d \o <<")", "\n">>
        /\ (pc = "done") =>
               \E d \in Todays :
                   /\ report[1].err = FALSE
                   /\ report[1].report
                        = [title |-> <<"D", "a", "i", "l", "y", " ", "M", "a", "r", "k", "e", "t", " ", "R", "e", "p", "o", "r", "t", " ", "(">> \o d \o <<")">>,
                           meta |-> <<>>, sections |-> <<>>]
                   /\ report[1].flow
                        = <<[kind |-> "title",
                             text |-> <<"D", "a", "i", "l", "y", " ", "M", "a", "r", "k", "e", "t", " ", "R", "e", "p", "o", "r", "t", " ", "(">> \o d \o <<")">>]>>

\* main ran to its end on a store without price rows but with news rows
C16_Witness == pc = "done" /\ StoreEmpty /\ news[TkAB] # {}

(***************************************************************************)
(* Claims on the parser's line rules, checked on every state the loop      *)
(* reaches under SpecLoop and every line it may read next                  *)
(***************************************************************************)

\* the text after "### " of the header lines
HeaderName(h) ==
    CASE h = LnSecA -> <<"A">> [] h = LnSecB -> <<"B">> [] OTHER -> <<>>

\* C17: a "### " line appends the open section, if any, to the sections,
\* opens an empty section of its name and resets the mode and the current
\* news item; a 2-space bullet read next changes nothing; the end of input
\* appends the open section; no other line adds, drops or renames a section.
C17_SectionBookkeeping ==
    /\ \A h \in HeaderLines :
           LET nx == ParseLine(pst, h)
           IN /\ nx.sections = pst.sections \o pst.cur
              /\ nx.cur = <<[ticker |-> HeaderName(h), kv |-> EmptyKv,
                             news |-> <<>>, ai |-> <<>>]>>
              /\ nx.mode = "none"
              /\ nx.last_news = 0
              /\ ParseLine(nx, LnBullet) = nx
              /\ Finish(nx).sections = nx.sections \o nx.cur
    /\ Finish(pst).sections = pst.sections \o pst.cur
    /\ \A l \in InputLines \ HeaderLines :
           LET nx == ParseLine(pst, l)
           IN /\ nx.sections = pst.sections
              /\ Len(nx.cur) = Len(pst.cur)
              /\ (pst.cur # <<>>) => nx.cur[1].ticker = pst.cur[1].ticker

\* section A was closed with a news item by the header of B, and a line
\* read after that header left B empty
C17_Witness ==
    /\ fed = 5
    /\ Len(pst.sections) = 1
    /\ pst.sections[1].ticker = <<"A">>
    /\ pst.sections[1].news # <<>>
    /\ pst.cur = <<NewSection(<<"B">>)>>
    /\ pst.mode = "none"

\* C18: in news mode a 2-space bullet appends one item with its text, an
\* empty summary and an empty url to the open section and makes it the
\* current item; a 4-space bullet writes the summary or the url of the
\* current item, which is the last item of the section and was started
\* after the last "- News" line, and changes nothing else; without a
\* current item, and when it holds neither a summary nor a url, it changes
\* nothing. Closed sections and the number of items are left alone.
C18_NewsBullets ==
    (pst.mode = "news") =>
        /\ pst.cur # <<>>
        /\ pst.last_news \in {0, Len(pst.cur[1].news)}
        /\ ParseLine(pst, LnNews) = [pst EXCEPT !.last_news = 0]
        /\ ParseLine(pst, LnBullet)
             = [pst EXCEPT !.cur[1].news =
                               Append(@, [line |-> <<"n">>, summary |-> <<>>,
                                          url |-> <<>>]),
                           !.last_news = Len(pst.cur[1].news) + 1]
        /\ ParseLine(pst, LnSubSum)
             = IF pst.last_news = 0 THEN pst
               ELSE [pst EXCEPT !.cur[1].news[Len(pst.cur[1].news)].summary = <<"s">>]
        /\ ParseLine(pst, LnSubUrl)
             = IF pst.last_news = 0 THEN pst
               ELSE [pst EXCEPT !.cur[1].news[Len(pst.cur[1].news)].url = <<"h", "t", "t", "p", ":", "/", "/", "u">>]
        /\ ParseLine(pst, LnSubJunk) = pst

\* two items were started in one news block and a 4-space bullet gave the
\* second its summary
C18_Witness ==
    /\ pst.mode = "news"
    /\ pst.cur # <<>>
    /\ Len(pst.cur[1].news) = 2
    /\ pst.cur[1].news[1].summary = <<>>
    /\ pst.cur[1].news[2].summary = <<"s">>

\* C19 as stated: in narrative mode a 2-space bullet sets the narrative to
\* its text when it is empty and else appends a newline and its text; a
\* non-empty line that is no bullet is appended after a single space (set
\* when the narrative is empty); a blank line and a bullet of another
\* indentation leave the narrative as it is, so that the narrative is made
\* of the 2-space bullets and the lines that are no bullets, and nothing else.
C19_NarrativeJoin ==
    (pst.mode = "ai") =>
        /\ pst.cur # <<>>
        /\ ParseLine(pst, LnBullet)
             = [pst EXCEPT !.cur[1].ai = IF @ = <<>> THEN <<"n">>
                                         ELSE @ \o <<"\n", "n">>]
        /\ ParseLine(pst, LnPlain)
             = [pst EXCEPT !.cur[1].ai = IF @ = <<>> THEN <<"x">>
                                         ELSE @ \o <<" ", "x">>]
        /\ ParseLine(pst, LnHash)
             = [pst EXCEPT !.cur[1].ai = IF @ = <<>> THEN <<"#", "x">>
                                         ELSE @ \o <<" ", "#", "x">>]
        /\ \A l \in {LnBlank, LnSubSum, LnSubUrl, LnSubJunk} : ParseLine(pst, l) = pst

\* C20: in an open section whose mode is none, that is before any
\* "- News", "- Summary:" or "- AI Summary:" line of the section, a 2-space
\* and a 4-space bullet leave the parse state as it is; while no section is
\* open every line that is no title, meta or "### " line leaves it as it is.
C20_IgnoredLines ==
    /\ (pst.cur # <<>> /\ pst.mode = "none") =>
           \A l \in {LnBullet, LnSubSum, LnSubUrl, LnSubJunk} : ParseLine(pst, l) = pst
    /\ (pst.cur = <<>>) =>
           \A l \in InputLines \ (TitleLines \cup MetaLines \cup HeaderLines) :
               ParseLine(pst, l) = pst

\* three lines were read, one of them the header of A, and the two others,
\* no title or meta line, left nothing in the report or in the section
C20_Witness ==
    /\ fed = 3
    /\ pst.title = <<>>
    /\ pst.meta = <<>>
    /\ pst.sections = <<>>
    /\ pst.cur = <<NewSection(<<"A">>)>>
    /\ pst.mode = "none"

(***************************************************************************)
(* Claims on the narrative block of the markup and on the renderer         *)
(***************************************************************************)

\* line j of ls lies in a narrative block: a "- Summary:" line stands before
\* it and no empty line between the two or at j
InNarrativeBlock(ls, j) ==
    \E i \in 1..(j - 1) :
        /\ ls[i] = PfxSummary
        /\ \A k \in (i + 1)..j : ls[k] # <<>>

\* C21 as stated: in the markup generate wrote, every line between a
\* "- Summary:" line and the empty line that ends the block starts with the
\* 2-space bullet prefix "  - ", whatever text summarize returned.
C21_NarrativeBullets ==
    (pc # "fetch") =>
        LET ls == SplitLines(md[1].text)
        IN \A j \in DOMAIN ls :
               InNarrativeBlock(ls, j) => StartsWith(ls[j], <<" ", " ", "-", " ">>)

\* the fields of the table in their order, each with its label
TableFields ==
    <<<<"date", <<"D", "a", "t", "e">>>>, <<"close", <<"C", "l", "o", "s", "e">>>>,
      <<"volume", <<"V", "o", "l", "u", "m", "e">>>>, <<"range", <<"2", "0", "D", " ", "R", "a", "n", "g", "e">>>>>>

\* the rows a section's table is to have: label and value of every field
\* whose value is given and not empty, in the order of TableFields
RowsFor(kv) ==
    LET keep == SelectSeq(TableFields,
                          LAMBDA f : f[1] \in DOMAIN kv /\ kv[f[1]] # <<>>)
    IN [i \in DOMAIN keep |-> <<keep[i][2], kv[keep[i][1]]>>]

\* the text a section's narrative box is to show
BoxFor(ai) == IF Strip(ai) = <<>> THEN <<"(", "N", "o", " ", "A", "I", " ", "s", "u", "m", "m", "a", "r", "y", ".", ")">> ELSE ai

IsSectionBlock(e) == e.kind = "section"

C23_BoundaryKept ==
    /\ (pst.mode = "ai") =>
           \A h \in HeaderLines :
               LET nx == ParseLine(pst, h)
               IN /\ Len(nx.sections) = Len(pst.sections) + 1
                  /\ nx.sections[Len(nx.sections)].ai = pst.cur[1].ai
                  /\ nx.cur # <<>>
                  /\ nx.cur[1].ai = <<>>
                  /\ nx.mode = "none"
    /\ \A l \in InputLines :
           LET nx == ParseLine(pst, l)
           IN \A i \in DOMAIN pst.sections : nx.sections[i].ai = pst.sections[i].ai

\* the section A was closed by a header met in narrative mode, with the
\* narrative "n", and a line was read after the header of the next section
C23_Witness ==
    /\ fed = 5
    /\ Len(pst.sections) = 1
    /\ pst.sections[1].ai = <<"n">>
    /\ pst.cur # <<>>
    /\ pst.cur[1].ai = <<>>

(***************************************************************************)
(* Claims on a failing service, under SpecCache                            *)
(***************************************************************************)

\* the step is a summarize call out of which the exception of the service
\* came
SummarizeRaised == ops' = ops + 1 /\ last'.op = "summarize" /\ last'.raised

\* C24: a summarize call in which the service raises lets the exception
\* out, with the service's message, and leaves the table of narratives as
\* it was; the next summarize call for the same triple calls the service,
\* whatever the service does then, and returns its answer if it answers.
C24_RaiseKeepsCache ==
    [][SummarizeRaised =>
           /\ last'.called
           /\ last'.text = TextBoom
           /\ ai_summaries' = ai_summaries
           /\ \A out \in LlmOutcomes :
                  LET r == summarize(ai_summaries', last'.key, out)
                  IN /\ r.called
                     /\ ~out.raises => (~r.raised /\ r.text = Strip(out.content))]_vars

\* the service raised in a summarize call made while the table held the
\* narrative of another triple
C24_Witness ==
    /\ last.op = "summarize"
    /\ last.raised
    /\ last.called
    /\ ai_summaries # EmptyKv
    /\ last.key \notin DOMAIN ai_summaries

(***************************************************************************)
(* Claims on a run of main with --refresh-ai, under SpecRefresh            *)
(***************************************************************************)

\* the narratives the service can be the source of: its answers, stripped
ServiceTexts == {Strip(o.content) : o \in {x \in LlmOutcomes : ~x.raises}}

\* C25: with --refresh-ai the steps are generate, clear_ai_cache of the date
\* generate returned, generate, export_pdf. The clearing leaves no row of
\* that date; the second generate calls the service for every symbol with 2
\* samples and writes its answer or the "(Error: ...)" placeholder; and
\* export_pdf parses the file the second generate wrote.
C25_RefreshOrder ==
    [][/\ (pc' = "cleared") =>
              /\ pc = "generated"
              /\ md' = md
              /\ \A k \in Keys :
                     IF k[1] # md[1].report_date /\ k \in DOMAIN ai_summaries
                     THEN k \in DOMAIN ai_summaries' /\ ai_summaries'[k] = ai_summaries[k]
                     ELSE k \notin DOMAIN ai_summaries'
       /\ (pc' = "regenerated") =>
              /\ pc = "cleared"
              /\ md'[1].text = MarkupText(md'[1].report_date, gen')
              /\ \A i \in DOMAIN gen' :
                     gen'[i].summarized =>
                         /\ gen'[i].called
                         /\ IF gen'[i].raised
                            THEN gen'[i].narrative = <<"(", "E", "r", "r", "o", "r", ":", " ", "b", "o", "o", "m", ")">>
                            ELSE gen'[i].narrative \in ServiceTexts
                         /\ HasLine(gen'[i].lines, <<" ", " ", "-", " ">> \o gen'[i].narrative)
       /\ (pc' = "done_refreshed") =>
              /\ pc = "regenerated"
              /\ md' = md
              /\ gen' = gen
              /\ report'[1].report = parse_report(md[1].text).report]_vars

\* a run with --refresh-ai came to its end; in the second generate the
\* service answered for one symbol and raised for the other
C25_Witness ==
    /\ pc = "done_refreshed"
    /\ Len(gen) = 2
    /\ gen[1].called /\ ~gen[1].raised
    /\ gen[2].called /\ gen[2].raised

(***************************************************************************)
(* Claims on a prior close of 0, under Spec                                *)
(***************************************************************************)

\* the closes of the store's rows as generate prints them
CloseText(c) ==
    CASE c = 0 -> <<"0", ".", "0", "0">> [] c = 1000 -> <<"1", "0", ".", "0", "0">> [] c = 1050 -> <<"1", "0", ".", "5", "0">>

\* the volumes of the store's rows as generate prints them
VolumeText(v) == IF v = NullVol THEN <<"0">> ELSE <<"1", "0", "0", ",", "0", "0", "0">>

\* r0 and r1 are the two newest rows of t, r1 the newer
TwoNewest(t, r0, r1) ==
    /\ r0 \in prices[t]
    /\ r1 \in prices[t]
    /\ StrLess(r0.date, r1.date)
    /\ \A q \in prices[t] \ {r0, r1} : StrLess(q.date, r0.date)

\* C26: for a symbol whose prior close is 0 generate computes a change of
\* exactly 0 and writes the Date, Close and Volume lines, the Close line
\* with "(+0.00%)"; and the markup has a block for every symbol of the store.
C26_ZeroPriorClose ==
    (pc # "fetch") =>
        /\ \A t \in Tickers : \A r0, r1 \in prices[t] :
               (TwoNewest(t, r0, r1) /\ r0.close = 0) =>
                   \E i \in DOMAIN gen :
                       /\ gen[i].ticker = t
                       /\ gen[i].pct = <<0, 1>>
                       /\ HasLine(gen[i].lines,
                                  <<"-", " ", "D", "a", "t", "e", ":", " ">> \o r0.date \o <<" ", "→", " ">> \o r1.date)
                       /\ HasLine(gen[i].lines,
                                  <<"-", " ", "C", "l", "o", "s", "e", ":", " ", "0", ".", "0", "0", " ">> \o <<"→", " ">> \o CloseText(r1.close)
                                  \o <<" ", "(", "+", "0", ".", "0", "0", "%", ")">>)
                       /\ HasLine(gen[i].lines, <<"-", " ", "V", "o", "l", "u", "m", "e", ":", " ">> \o VolumeText(r1.volume))
        /\ {gen[i].ticker : i \in DOMAIN gen} = {t \in Tickers : prices[t] # {}}

\* AB closed at 0 and then at 10.00, and ACME, the symbol after AB, has
\* rows too
C26_Witness ==
    /\ pc = "generated"
    /\ prices[TkAB] = {[date |-> D10, close |-> 0, volume |-> NullVol],
                       [date |-> D11, close |-> 1000, volume |-> 100000]}
    /\ prices[TkACME] # {}
    /\ Len(gen) = 2

(***************************************************************************)
(* Claims on the price collector, under SpecFetch                          *)
(***************************************************************************)

\* C27 as stated: after a notice of the daily quota run has ended without
\* an exception, no request was made for a later ticker, and the ticker at
\* hand got no request after the notice and no sleep; and no ticker gets
\* more than max_retries requests.
C27_QuotaStop ==
    /\ (fetch.notice = "daily") =>
           /\ fetch.status = "ended"
           /\ \A j \in DOMAIN FetchTickers :
                  (j > fetch.i) => fetch.reqs[FetchTickers[j]] = 0
           /\ fetch.reqs[FetchTickers[fetch.i]] = fetch.attempt + 1
    /\ \A t \in Tickers : fetch.reqs[t] <= MaxRetries

=============================================================================
